---- MODULE Spec2Model ----
(***************************************************************************)
(* A model of the seifnode addon: the RNG wrapper around the process-wide  *)
(* Isaac pool (rng.cc), the ECCISAAC key lifecycle (eccisaac.cc) and the   *)
(* AESXOR256 whitening cipher (aesxor.cc).                                 *)
(*                                                                         *)
(* Main-thread methods (NAN_METHODs) run to completion on the event loop   *)
(* and are one action each.  Nan::AsyncWorker::Execute runs on a pool      *)
(* thread, so its file reads interleave with main-thread actions; its      *)
(* completion callback runs on the event loop again.                       *)
(***************************************************************************)
EXTENDS Integers, Sequences, FiniteSets, TLC

VARIABLES
    disk,       \* path -> NoFile or the encrypted file stored there
    pool,       \* l_PRNG, the process-wide IsaacRandomPool (rng.cc:65)
    workers,    \* the AsyncWorkers queued so far, in creation order
    last,       \* outcome of the latest synchronous addon call
    everOk,     \* history: some initialize / state check has succeeded
    aes,        \* the AESXOR256 instances: seed and generator position
    aesLog,     \* per instance: the encrypt/decrypt calls made so far
    heap,       \* the heap after getRandom's writes past the end of `random`
    build,      \* what this build makes of the over-wide shifts (aesxor.cc:91)
    ecc,        \* the ECCISAAC objects: disk key and whether they hold a pair
    asym,       \* the ECCISAAC encrypt/decrypt calls made so far
    running,    \* thread -> the pool operation it is inside, if any
    digests     \* the SEIFSHA3 hash calls made so far

vars == <<disk, pool, workers, last, everOk, aes, aesLog, heap, build,
          ecc, asym, running, digests>>
procVars == <<disk, pool, workers, last, everOk>>
aesVars == <<aes, aesLog, heap, build>>
objVars == <<ecc, asym, running, digests>>

---------------------------------------------------------------------------
(* Bounds of the model *)

MaxWorkers == 2      \* async calls (isInitialized / loadKeys) per run
MaxRacingLoads == 1  \* loadKeys calls in a run that also generates keys
MaxAesCalls == 2     \* encrypt / decrypt calls per AESXOR256 instance
TagBytes == 1        \* bytes of the authentication tag
MaxBytes == 2        \* largest byte count asked of getBytes
MaxKeyExp == 2       \* distinct private exponents the pool can yield
MaxOverlong == 1     \* bytes by which a secret can exceed the AES key size
MaxAsymCalls == 2    \* ECCISAAC encrypt / decrypt calls per run
MaxNonce == 2        \* distinct ephemeral values an encryption can draw
MaxHashLen == 2      \* bytes of the longest input given to hash
MaxHashCalls == 2    \* SEIFSHA3 hash calls per run
MaxSeedLen == 9      \* bytes of the longest seed buffer

---------------------------------------------------------------------------
(* Program constants *)

MAX_ENTROPY_GEN_MULTIPLIER == 6
ECC_MAX_MULTIPLIER == 6
AES_KEY_BYTES == 32

SUCCESS == 0
FILE_NOT_FOUND == -1
DECRYPTION_ERROR == -2
ENTROPY_ERROR == -3
RNG_INIT_ERROR == -4

STATUS == {SUCCESS, FILE_NOT_FOUND, DECRYPTION_ERROR, ENTROPY_ERROR,
           RNG_INIT_ERROR}

RNG_STATE_FILE_NAME == ".ecies.rng"
PRIV_KEY_FILE_NAME == ".ecies.private.key"
PUB_KEY_FILE_NAME == ".ecies.public.key"

Paths == {RNG_STATE_FILE_NAME, PRIV_KEY_FILE_NAME, PUB_KEY_FILE_NAME}

\* a key as the collaborators see it: a SHA3-256 digest of `bytes`, or the raw
\* buffer `bytes` itself
NoKey == [tag |-> "none", bytes |-> <<>>]

NoFile == [key |-> NoKey, data |-> <<>>]

---------------------------------------------------------------------------
(* Secrets, digests and protection keys *)

\* caller secrets handed to the constructors; all shorter than 32 bytes
Secrets == {<<1>>, <<2>>}

\* SHA3-256 as a symbolic digest: equal inputs give equal digests, distinct
\* inputs distinct ones, and a digest never equals a raw buffer
SHA3_256(bytes) == [tag |-> "sha3", bytes |-> bytes]

hashString(str) == SHA3_256(str)

\* the key buffer used as the digest whatever its length
NormalizeKey_NoHash(buffer) == [tag |-> "raw", bytes |-> buffer]

\* the `digest` the constructors and RNG methods derive from the key buffer
NormalizeKey(buffer) ==
    IF Len(buffer) < AES_KEY_BYTES
    THEN hashString(buffer)
    ELSE [tag |-> "raw", bytes |-> buffer]

---------------------------------------------------------------------------
(* Key serialisation and hex encoding *)

KeyExps == 1..MaxKeyExp

\* the public element that belongs to a private exponent
PublicOf(x) == (x * 7 + 3) % 256

\* PrivateKey::Save / PublicKey::Save: a DER-like byte string
SavePrivate(x) == <<48, 1, x>>
SavePublic(q) == <<48, 2, q>>

RngStateBlob == <<82>>

\* PrivateKey::Load / PublicKey::Load accept only their own encoding
PrivateLoads(bytes) == Len(bytes) = 3 /\ bytes[1] = 48 /\ bytes[2] = 1
PublicLoads(bytes) == Len(bytes) = 3 /\ bytes[1] = 48 /\ bytes[2] = 2

HexDigits == <<"0", "1", "2", "3", "4", "5", "6", "7",
               "8", "9", "A", "B", "C", "D", "E", "F">>

RECURSIVE HexEncoder(_)
HexEncoder(bytes) ==
    IF bytes = <<>> THEN <<>>
    ELSE <<HexDigits[(Head(bytes) \div 16) + 1],
           HexDigits[(Head(bytes) % 16) + 1]>> \o HexEncoder(Tail(bytes))

---------------------------------------------------------------------------
(* FileCryptopp: the encrypted-file collaborator *)

fileExists(d, path) == d[path] # NoFile

\* readFile succeeds exactly when the file was written under `key`
readFile(d, path, key) == d[path] # NoFile /\ d[path].key = key

writeFile(d, path, key, bytes) ==
    [d EXCEPT ![path] = [key |-> key, data |-> bytes]]

---------------------------------------------------------------------------
(* IsaacRandomPool: the entropy pool collaborator (isaacRandomPool.h) *)

FreshPool == [state |-> "Uninitialized",
              fileId |-> RNG_STATE_FILE_NAME, key |-> NoKey]

\* what one entropy-gathering attempt can report
Entropy == {"ok", "low", "throw"}

\* IsInitialized(fileId, key): the disk check of the persisted state
PoolIsInitialized(d, fileId, key) ==
    IF ~fileExists(d, fileId) THEN FILE_NOT_FOUND
    ELSE IF ~readFile(d, fileId, key) THEN DECRYPTION_ERROR
    ELSE SUCCESS

\* Initialize(fileId, multiplier, key): "ok" (true), "low" (false) or
\* "throw"; persisted state that decrypts wins over entropy gathering, and
\* a destroyed pool is never brought back
PoolInitializeOutcome(p, d, fileId, key, entropy) ==
    IF p.state = "Destroyed" THEN (IF entropy = "throw" THEN "throw" ELSE "low")
    ELSE IF readFile(d, fileId, key) THEN "ok"
    ELSE entropy

PoolAfterInitialize(p, fileId, key, outcome) ==
    IF p.state = "Destroyed" THEN p
    ELSE IF outcome = "ok"
    THEN [state |-> "Ready", fileId |-> fileId, key |-> key]
    ELSE [p EXCEPT !.state = "Uninitialized"]

PoolByte(i) == (i * 37 + 11) % 256

\* GenerateBlock(output, size): throws unless the pool is Ready
PoolGenerateThrows(p) == p.state # "Ready"
PoolGenerateBlock(size) == [i \in 1..size |-> PoolByte(i)]

\* Destroy(): a Ready pool persists its state under the last-used key; the
\* pool is Destroyed afterwards, whatever it was
PoolDestroyDisk(p, d) ==
    IF p.state = "Ready" THEN writeFile(d, p.fileId, p.key, RngStateBlob)
    ELSE d
PoolAfterDestroy(p) == [p EXCEPT !.state = "Destroyed"]

\* The entropy an attempt meets is the environment's choice.  Only the
\* attempts up to the first one that is not "low" decide what the retry
\* loops do, so an oracle is `n` low attempts, then `first`, then "ok".
Oracle(n, first) ==
    [m \in 0..MAX_ENTROPY_GEN_MULTIPLIER |->
        IF m < n THEN "low" ELSE IF m = n THEN first ELSE "ok"]

Oracles == {Oracle(n, first) : n \in 0..MAX_ENTROPY_GEN_MULTIPLIER,
                               first \in {"ok", "throw"}}

---------------------------------------------------------------------------
(* Results of synchronous calls *)

Undefined == [kind |-> "undefined", bytes |-> <<>>, enc |-> <<>>, dec |-> <<>>]
True == [Undefined EXCEPT !.kind = "true"]
Buffer(bytes) == [Undefined EXCEPT !.kind = "buffer", !.bytes = bytes]
KeysObject(enc, dec) == [Undefined EXCEPT !.kind = "keys", !.enc = enc, !.dec = dec]

NoArg == [given |-> FALSE, n |-> 0]

\* `threw` is the message handed to Nan::ThrowError, "" when nothing was
\* thrown; `attempts` the Initialize calls made, <<multiplier, outcome>>;
\* `keysMade` whether the key pair was constructed and `poolOk` whether the
\* pool it drew from was Ready; `ready` / `readyAfter` whether l_PRNG was
\* Ready when the call began / returned; `okBefore` whether an initialize
\* or a state check had succeeded before the call; `afterExhausted` whether
\* the call before it was an initialize that ran out of attempts on a pool
\* that was not Ready; `saved` the key files written; `fault` what made a
\* generateKeys call fail
NoCall == [op |-> "none", ret |-> Undefined, threw |-> "", attempts |-> <<>>,
           keysMade |-> FALSE, poolOk |-> FALSE, ready |-> FALSE,
           readyAfter |-> FALSE, okBefore |-> FALSE, afterExhausted |-> FALSE,
           arg |-> NoArg, key |-> NoKey, saved |-> <<>>, fault |-> ""]

\* an initialize call that made every attempt and found too little entropy
\* each time, on a pool that was not Ready
EntropyExhausted(call) ==
    /\ call.op = "initialize"
    /\ ~call.ready
    /\ Len(call.attempts) = MAX_ENTROPY_GEN_MULTIPLIER
    /\ \A i \in 1..Len(call.attempts) : call.attempts[i][2] = "low"

---------------------------------------------------------------------------
(* Nan::AsyncWorker: one queued unit of work and its completion callback *)

\* `errmsg` is AsyncWorker's error message, "" while it is NULL; `status` is
\* the worker's _status / _result member, meaningful once `statusSet`;
\* `privExp` is the private key read so far; `calls` the callback
\* invocations made.  `expect` is history: the key object generateKeys
\* returned under the worker's key when that was the latest synchronous call
\* as the worker was queued and no generateKeys has run since
NewWorker == [kind |-> "none", phase |-> "queued", path |-> "", key |-> NoKey,
              status |-> 0, statusSet |-> FALSE, errmsg |-> "",
              privExp |-> 0, encodedPub |-> <<>>, encodedPriv |-> <<>>,
              calls |-> <<>>, expect |-> Undefined]

---------------------------------------------------------------------------
(* rng.cc: the RNG wrapper *)

\* the retry loop run while multiplier <= MAX_ENTROPY_GEN_MULTIPLIER
RECURSIVE RngInitLoop_OneMore(_, _, _, _, _, _, _)
RngInitLoop_OneMore(p, d, fileId, digest, oracle, multiplier, attempts) ==
    IF multiplier <= MAX_ENTROPY_GEN_MULTIPLIER
    THEN LET o == PoolInitializeOutcome(p, d, fileId, digest, oracle[multiplier])
             q == PoolAfterInitialize(p, fileId, digest, o)
             att == Append(attempts, <<multiplier, o>>)
         IN  IF o = "throw"
             THEN [pool |-> q, attempts |-> att, multiplier |-> multiplier,
                   caught |-> TRUE]
             ELSE IF o = "ok"
             THEN [pool |-> q, attempts |-> att, multiplier |-> multiplier,
                   caught |-> FALSE]
             ELSE RngInitLoop_OneMore(q, d, fileId, digest, oracle,
                                      multiplier + 1, att)
    ELSE [pool |-> p, attempts |-> attempts, multiplier |-> multiplier,
          caught |-> FALSE]

\* the retry loop of RNG::initialize, from `multiplier` on
RECURSIVE RngInitLoop(_, _, _, _, _, _, _)
RngInitLoop(p, d, fileId, digest, oracle, multiplier, attempts) ==
    IF multiplier < MAX_ENTROPY_GEN_MULTIPLIER
    THEN LET o == PoolInitializeOutcome(p, d, fileId, digest, oracle[multiplier])
             q == PoolAfterInitialize(p, fileId, digest, o)
             att == Append(attempts, <<multiplier, o>>)
         IN  IF o = "throw"
             THEN [pool |-> q, attempts |-> att, multiplier |-> multiplier,
                   caught |-> TRUE]
             ELSE IF o = "ok"
             THEN [pool |-> q, attempts |-> att, multiplier |-> multiplier,
                   caught |-> FALSE]
             ELSE RngInitLoop(q, d, fileId, digest, oracle, multiplier + 1, att)
    ELSE [pool |-> p, attempts |-> attempts, multiplier |-> multiplier,
          caught |-> FALSE]

\* initialize without the check for multiplier == MAX_ENTROPY_GEN_MULTIPLIER
RngInitializeResult_NoExhaustion(run) ==
    IF run.caught THEN [ret |-> Undefined, threw |-> "hardware error"]
    ELSE [ret |-> True, threw |-> ""]

\* what RNG::initialize hands back after the loop
RngInitializeResult(run) ==
    IF run.caught THEN [ret |-> Undefined, threw |-> "hardware error"]
    ELSE IF run.multiplier = MAX_ENTROPY_GEN_MULTIPLIER
    THEN [ret |-> Undefined, threw |-> "Not enough entropy!"]
    ELSE [ret |-> True, threw |-> ""]

\* NAN_METHOD(RNG::initialize), with the entropy the attempts meet drawn
\* from `oracles`
RngInitializeWith(oracles) ==
    \E secret \in Secrets, fileId \in {RNG_STATE_FILE_NAME}, oracle \in oracles :
        LET digest == NormalizeKey(secret)
            run == RngInitLoop(pool, disk, fileId, digest, oracle, 0, <<>>)
            res == RngInitializeResult(run)
        IN  /\ pool' = run.pool
            /\ last' = [NoCall EXCEPT !.op = "initialize", !.ret = res.ret,
                                      !.threw = res.threw,
                                      !.attempts = run.attempts,
                                      !.ready = (pool.state = "Ready"),
                                      !.readyAfter = (run.pool.state = "Ready"),
                                      !.okBefore = everOk,
                                      !.key = digest]
            /\ everOk' = (everOk \/ res.ret = True)
            /\ UNCHANGED <<disk, workers, aesVars, objVars>>

\* getBytes that hands back the buffer whatever GenerateBlock did
RngGetBytesResult_NoCatch(p, val) ==
    [ret |-> Buffer(PoolGenerateBlock(val)), threw |-> ""]

RngInitialize == RngInitializeWith(Oracles)

\* entropy that suffices at once, fails every attempt, or throws at once
CoarseOracles == {Oracle(0, "ok"), Oracle(MAX_ENTROPY_GEN_MULTIPLIER, "ok"),
                  Oracle(0, "throw")}

RngInitializeCoarse == RngInitializeWith(CoarseOracles)

\* RNG::getBytes: the buffer or the error it hands back
RngGetBytesResult(p, val) ==
    IF PoolGenerateThrows(p)
    THEN [ret |-> Undefined, threw |-> "RNG not initialized"]
    ELSE [ret |-> Buffer(PoolGenerateBlock(val)), threw |-> ""]

RngGetBytes ==
    \E given \in BOOLEAN, n \in 0..MaxBytes :
        /\ ~given => n = 0
        /\ LET val == IF given THEN n ELSE 0
               res == RngGetBytesResult(pool, val)
           IN  last' = [NoCall EXCEPT !.op = "getBytes", !.ret = res.ret,
                                     !.threw = res.threw,
                                     !.ready = (pool.state = "Ready"),
                                     !.okBefore = everOk,
                                     !.afterExhausted = EntropyExhausted(last),
                                     !.arg = [given |-> given, n |-> n]]
        /\ UNCHANGED <<disk, pool, workers, everOk, aesVars, objVars>>

\* destroy that persists the state and leaves the pool as it was
RngDestroy_KeepsPool ==
    /\ disk' = PoolDestroyDisk(pool, disk)
    /\ pool' = pool
    /\ last' = [NoCall EXCEPT !.op = "destroy",
                              !.ready = (pool.state = "Ready"),
                              !.okBefore = everOk]
    /\ UNCHANGED <<workers, everOk, aesVars, objVars>>

\* NAN_METHOD(RNG::destroy)
RngDestroy ==
    /\ disk' = PoolDestroyDisk(pool, disk)
    /\ pool' = PoolAfterDestroy(pool)
    /\ last' = [NoCall EXCEPT !.op = "destroy",
                              !.ready = (pool.state = "Ready"),
                              !.okBefore = everOk]
    /\ UNCHANGED <<workers, everOk, aesVars, objVars>>

\* RNG::isInitialized: queue a worker holding the file id and the digest
RngIsInitialized ==
    \E secret \in Secrets, fileId \in {RNG_STATE_FILE_NAME} :
        /\ Len(workers) < MaxWorkers
        /\ workers' = Append(workers,
                [NewWorker EXCEPT !.kind = "rng", !.path = fileId,
                                  !.key = NormalizeKey(secret)])
        /\ UNCHANGED <<disk, pool, last, everOk, aesVars, objVars>>

\* the error message RNG::Worker::Execute sets for a result, "" for none
RngErrorMessage(result) ==
    IF result = SUCCESS THEN ""
    ELSE IF result = FILE_NOT_FOUND THEN "File Not Found"
    ELSE IF result = DECRYPTION_ERROR THEN "Decryption Error"
    ELSE "Unknown Error"

\* what RNG::Worker::Execute leaves behind: _result, the error message and
\* the pool as IsInitialized left it
RngExecuteReturns(w) ==
    LET result == PoolIsInitialized(disk, workers[w].path, workers[w].key)
    IN  /\ workers' = [workers EXCEPT ![w].phase = "executed",
                                      ![w].status = result,
                                      ![w].statusSet = TRUE,
                                      ![w].errmsg = RngErrorMessage(result)]
        /\ pool' = IF result = SUCCESS
                   THEN PoolAfterInitialize(pool, workers[w].path,
                                            workers[w].key, "ok")
                   ELSE pool
        /\ everOk' = (everOk \/ result = SUCCESS)

\* RNG::Worker::Execute, on a pool thread
RngExecute(w) ==
    /\ workers[w].kind = "rng"
    /\ workers[w].phase = "queued"
    /\ RngExecuteReturns(w)
    /\ UNCHANGED <<disk, last, aesVars, objVars>>

---------------------------------------------------------------------------
(* eccisaac.cc: the key lifecycle *)

\* how the part of generateKeys after key construction can end: both keys
\* validate and both files are written, a key fails validation, or one of
\* the two writes throws
GenTails == {"ok", "invalid", "privSaveFails", "pubSaveFails"}

\* the retry loop of ECCISAAC::generateKeys on its local pool
RECURSIVE GenInitLoop(_, _, _, _, _, _)
GenInitLoop(prng, d, fileId, oracle, multiplier, attempts) ==
    IF multiplier < ECC_MAX_MULTIPLIER
    THEN LET o == PoolInitializeOutcome(prng, d, fileId, NoKey, oracle[multiplier])
             q == PoolAfterInitialize(prng, fileId, NoKey, o)
             att == Append(attempts, <<multiplier, o>>)
         IN  IF o = "throw"
             THEN [pool |-> q, attempts |-> att, multiplier |-> multiplier,
                   caught |-> TRUE]
             ELSE IF o = "ok"
             THEN [pool |-> q, attempts |-> att, multiplier |-> multiplier,
                   caught |-> FALSE]
             ELSE GenInitLoop(q, d, fileId, oracle, multiplier + 1, att)
    ELSE [pool |-> prng, attempts |-> attempts, multiplier |-> multiplier,
          caught |-> FALSE]

GenFailed(run, d, threw) ==
    [ok |-> FALSE, threw |-> threw, attempts |-> run.attempts,
     keysMade |-> FALSE, poolOk |-> FALSE, disk |-> d, saved |-> <<>>,
     fault |-> threw, encodedPub |-> <<>>, encodedPriv |-> <<>>]

\* generateKeys saving both keys to the public-key file
GenKeysAndSave_OneFile(run, d, key, x, tail) ==
    LET savePriv == tail \in {"ok", "pubSaveFails"}
        savePub == tail = "ok"
        d1 == IF savePriv
              THEN writeFile(d, PUB_KEY_FILE_NAME, key, SavePrivate(x))
              ELSE d
        d2 == IF savePub
              THEN writeFile(d1, PUB_KEY_FILE_NAME, key, SavePublic(PublicOf(x)))
              ELSE d1
    IN  [ok |-> tail = "ok", threw |-> "", attempts |-> run.attempts,
         keysMade |-> TRUE, poolOk |-> (run.pool.state = "Ready"),
         disk |-> d2, fault |-> (IF tail = "ok" THEN "" ELSE tail),
         saved |-> (IF savePriv THEN <<PUB_KEY_FILE_NAME>> ELSE <<>>)
                   \o (IF savePub THEN <<PUB_KEY_FILE_NAME>> ELSE <<>>),
         encodedPub |-> IF tail = "ok"
                        THEN HexEncoder(SavePublic(PublicOf(x))) ELSE <<>>,
         encodedPriv |-> IF tail = "ok"
                         THEN HexEncoder(SavePrivate(x)) ELSE <<>>]

\* generateKeys writing the private key before the keys are validated
GenKeysAndSave_SaveFirst(run, d, key, x, tail) ==
    LET savePriv == tail \in {"ok", "invalid", "pubSaveFails"}
        savePub == tail = "ok"
        d1 == IF savePriv
              THEN writeFile(d, PRIV_KEY_FILE_NAME, key, SavePrivate(x))
              ELSE d
        d2 == IF savePub
              THEN writeFile(d1, PUB_KEY_FILE_NAME, key, SavePublic(PublicOf(x)))
              ELSE d1
    IN  [ok |-> tail = "ok", threw |-> "", attempts |-> run.attempts,
         keysMade |-> TRUE, poolOk |-> (run.pool.state = "Ready"),
         disk |-> d2, fault |-> (IF tail = "ok" THEN "" ELSE tail),
         saved |-> (IF savePriv THEN <<PRIV_KEY_FILE_NAME>> ELSE <<>>)
                   \o (IF savePub THEN <<PUB_KEY_FILE_NAME>> ELSE <<>>),
         encodedPub |-> IF tail = "ok"
                        THEN HexEncoder(SavePublic(PublicOf(x))) ELSE <<>>,
         encodedPriv |-> IF tail = "ok"
                         THEN HexEncoder(SavePrivate(x)) ELSE <<>>]

\* the key construction, validation and persistence of generateKeys, once
\* the retry loop has ended with a usable multiplier
GenKeysAndSave(run, d, key, x, tail) ==
    LET savePriv == tail \in {"ok", "pubSaveFails"}
        savePub == tail = "ok"
        d1 == IF savePriv
              THEN writeFile(d, PRIV_KEY_FILE_NAME, key, SavePrivate(x))
              ELSE d
        d2 == IF savePub
              THEN writeFile(d1, PUB_KEY_FILE_NAME, key, SavePublic(PublicOf(x)))
              ELSE d1
    IN  [ok |-> tail = "ok", threw |-> "", attempts |-> run.attempts,
         keysMade |-> TRUE, poolOk |-> (run.pool.state = "Ready"),
         disk |-> d2, fault |-> (IF tail = "ok" THEN "" ELSE tail),
         saved |-> (IF savePriv THEN <<PRIV_KEY_FILE_NAME>> ELSE <<>>)
                   \o (IF savePub THEN <<PUB_KEY_FILE_NAME>> ELSE <<>>),
         encodedPub |-> IF tail = "ok"
                        THEN HexEncoder(SavePublic(PublicOf(x))) ELSE <<>>,
         encodedPriv |-> IF tail = "ok"
                         THEN HexEncoder(SavePrivate(x)) ELSE <<>>]

\* generateKeys without the check for multiplier == 6
generateKeys_NoExhaustion(d, key, oracle, x, tail) ==
    LET run == GenInitLoop(FreshPool, d, RNG_STATE_FILE_NAME, oracle, 0, <<>>)
    IN  IF run.caught THEN GenFailed(run, d, "hardware error")
        ELSE GenKeysAndSave(run, d, key, x, tail)

\* ECCISAAC::generateKeys (the member function)
generateKeys(d, key, oracle, x, tail) ==
    LET run == GenInitLoop(FreshPool, d, RNG_STATE_FILE_NAME, oracle, 0, <<>>)
    IN  IF run.caught THEN GenFailed(run, d, "hardware error")
        ELSE IF run.multiplier = ECC_MAX_MULTIPLIER
        THEN GenFailed(run, d, "Not enough entropy!")
        ELSE GenKeysAndSave(run, d, key, x, tail)

\* what NAN_METHOD(ECCISAAC::generateKeys) leaves behind once the member
\* function has ended as `g` under the object's key: the files, the value
\* returned or the error thrown
EccGenerateKeysReturns(key, g) ==
    /\ disk' = g.disk
    /\ last' = [NoCall EXCEPT
            !.op = "generateKeys",
            !.ret = IF g.ok THEN KeysObject(g.encodedPub, g.encodedPriv)
                    ELSE Undefined,
            !.threw = g.threw, !.attempts = g.attempts,
            !.keysMade = g.keysMade, !.poolOk = g.poolOk,
            !.key = key, !.saved = g.saved, !.fault = g.fault]
    /\ workers' = [w \in DOMAIN workers |->
            IF workers[w].phase \in {"queued", "privLoaded"}
            THEN [workers[w] EXCEPT !.expect = Undefined]
            ELSE workers[w]]

\* NAN_METHOD(ECCISAAC::generateKeys) on an instance built from `secret`,
\* with the entropy the attempts meet drawn from `oracles`, the private
\* exponent from `exps` and the end of the call from `tails`
EccGenerateKeysWith(oracles, exps, tails) ==
    \E secret \in Secrets, oracle \in oracles, x \in exps, tail \in tails :
        LET key == NormalizeKey(secret)
            g == generateKeys(disk, key, oracle, x, tail)
        IN  /\ ~g.keysMade => (x = 1 /\ tail = "ok")  \* neither was used
            /\ EccGenerateKeysReturns(key, g)
            /\ UNCHANGED <<pool, everOk, aesVars, objVars>>

EccGenerateKeys == EccGenerateKeysWith(Oracles, KeyExps, GenTails)

\* every retry pattern, one key pair, both files written
EccGenerateKeysRetrying == EccGenerateKeysWith(Oracles, {1}, {"ok", "invalid"})

\* coarse entropy, every key pair, every way the call can end
EccGenerateKeysCoarse == EccGenerateKeysWith(CoarseOracles, KeyExps, GenTails)

\* NAN_METHOD(ECCISAAC::loadKeys): queue a worker with the instance's key,
\* while fewer than `limit` workers exist
EccLoadKeysUpTo(limit) ==
    \E secret \in Secrets :
        LET key == NormalizeKey(secret) IN
        /\ Len(workers) < limit
        /\ workers' = Append(workers,
                [NewWorker EXCEPT
                    !.kind = "ecc", !.path = "./", !.key = key,
                    !.expect = IF last.op = "generateKeys" /\ last.key = key
                               THEN last.ret ELSE Undefined])
        /\ UNCHANGED <<disk, pool, last, everOk, aesVars, objVars>>

EccLoadKeys == EccLoadKeysUpTo(MaxWorkers)

EccLoadKeysRacing == EccLoadKeysUpTo(MaxRacingLoads)

\* LoadPrivateKey reporting every failure as a missing file
LoadPrivateKey_AlwaysNotFound(d, key) ==
    IF ~fileExists(d, PRIV_KEY_FILE_NAME) \/ ~readFile(d, PRIV_KEY_FILE_NAME, key)
    THEN [status |-> FILE_NOT_FOUND, throws |-> FALSE]
    ELSE IF ~PrivateLoads(d[PRIV_KEY_FILE_NAME].data)
    THEN [status |-> SUCCESS, throws |-> TRUE]
    ELSE [status |-> SUCCESS, throws |-> FALSE]

\* LoadPublicKey ignoring what readFile returns
LoadPublicKey_Unchecked(d, key) ==
    IF ~fileExists(d, PUB_KEY_FILE_NAME) THEN [status |-> FILE_NOT_FOUND, throws |-> FALSE]
    ELSE IF ~PublicLoads(d[PUB_KEY_FILE_NAME].data)
    THEN [status |-> SUCCESS, throws |-> TRUE]
    ELSE [status |-> SUCCESS, throws |-> FALSE]

\* LoadPrivateKey / LoadPublicKey: the status, or "throws" when the decrypted
\* bytes are not a key of that kind
LoadPrivateKey(d, key) ==
    IF ~fileExists(d, PRIV_KEY_FILE_NAME) THEN [status |-> FILE_NOT_FOUND, throws |-> FALSE]
    ELSE IF ~readFile(d, PRIV_KEY_FILE_NAME, key)
    THEN [status |-> DECRYPTION_ERROR, throws |-> FALSE]
    ELSE IF ~PrivateLoads(d[PRIV_KEY_FILE_NAME].data)
    THEN [status |-> SUCCESS, throws |-> TRUE]
    ELSE [status |-> SUCCESS, throws |-> FALSE]

LoadPublicKey(d, key) ==
    IF ~fileExists(d, PUB_KEY_FILE_NAME) THEN [status |-> FILE_NOT_FOUND, throws |-> FALSE]
    ELSE IF ~readFile(d, PUB_KEY_FILE_NAME, key)
    THEN [status |-> DECRYPTION_ERROR, throws |-> FALSE]
    ELSE IF ~PublicLoads(d[PUB_KEY_FILE_NAME].data)
    THEN [status |-> SUCCESS, throws |-> TRUE]
    ELSE [status |-> SUCCESS, throws |-> FALSE]

\* the error message ECCISAAC::Worker::Execute sets for a status
EccErrorMessage(status) ==
    IF status = FILE_NOT_FOUND THEN "File Not Found"
    ELSE IF status = DECRYPTION_ERROR THEN "Decryption Error"
    ELSE "Unknown Error"

\* how Execute ends once a load did not succeed: a returned status is stored
\* in _status; an exception leaves _status as it was
EccExecuteFailed(wk, r) ==
    IF r.throws
    THEN [wk EXCEPT !.phase = "executed", !.errmsg = "Unknown Error"]
    ELSE [wk EXCEPT !.phase = "executed", !.status = r.status,
                    !.statusSet = TRUE, !.errmsg = EccErrorMessage(r.status)]

\* ECCISAAC::Worker::Execute, first half: loadKeys up to the private key
EccExecutePriv(w) ==
    /\ workers[w].kind = "ecc"
    /\ workers[w].phase = "queued"
    /\ LET r == LoadPrivateKey(disk, workers[w].key)
       IN  workers' = [workers EXCEPT ![w] =
               IF r.status = SUCCESS /\ ~r.throws
               THEN [@ EXCEPT !.phase = "privLoaded",
                              !.privExp = disk[PRIV_KEY_FILE_NAME].data[3]]
               ELSE EccExecuteFailed(@, r)]
    /\ UNCHANGED <<disk, pool, last, everOk, aesVars, objVars>>

\* ECCISAAC::Worker::Execute, second half: the public key and the encoding
EccExecutePub(w) ==
    /\ workers[w].kind = "ecc"
    /\ workers[w].phase = "privLoaded"
    /\ LET r == LoadPublicKey(disk, workers[w].key)
       IN  workers' = [workers EXCEPT ![w] =
               IF r.status = SUCCESS /\ ~r.throws
               THEN [@ EXCEPT
                       !.phase = "executed", !.status = SUCCESS,
                       !.statusSet = TRUE,
                       !.encodedPub =
                           HexEncoder(SavePublic(disk[PUB_KEY_FILE_NAME].data[3])),
                       !.encodedPriv =
                           HexEncoder(SavePrivate(workers[w].privExp))]
               ELSE EccExecuteFailed(@, r)]
    /\ UNCHANGED <<disk, pool, last, everOk, aesVars, objVars>>

---------------------------------------------------------------------------
(* Completion: AsyncWorker::WorkComplete on the event loop *)

\* the values an uninitialised _status can be read as
IndeterminateInts == STATUS \cup {1}

Callback(form, code, message, keys) ==
    [form |-> form, code |-> code, message |-> message, keys |-> keys]

\* a worker that takes the success path whatever Execute recorded
RngHandleCallback_AlwaysOK(wk) ==
    Callback("ok", wk.status, "Success", Undefined)

\* RNG::Worker::HandleOKCallback / HandleErrorCallback
RngHandleCallback(wk) ==
    IF wk.errmsg = ""
    THEN Callback("ok", wk.status, "Success", Undefined)
    ELSE Callback("error", wk.status, wk.errmsg, Undefined)

\* ECCISAAC::Worker::HandleOKCallback / HandleErrorCallback; `code` is what
\* (int)_status reads
EccHandleCallback(wk, code) ==
    IF wk.errmsg = ""
    THEN Callback("ok", 0, "Success", KeysObject(wk.encodedPub, wk.encodedPriv))
    ELSE Callback("error", code, wk.errmsg, Undefined)

WorkComplete(w) ==
    /\ workers[w].phase = "executed"
    /\ \E code \in IndeterminateInts :
        /\ workers[w].statusSet => code = workers[w].status
        /\ workers' = [workers EXCEPT
                ![w].phase = "completed",
                ![w].calls = Append(@,
                    IF workers[w].kind = "rng"
                    THEN RngHandleCallback(workers[w])
                    ELSE EccHandleCallback(workers[w], code))]
    /\ UNCHANGED <<disk, pool, last, everOk, aesVars, objVars>>

---------------------------------------------------------------------------
(* aesxor.cc: the whitened authenticated cipher *)

\* the contents of the buffers a caller can pass: every sequence of the
\* bytes 0 and 97 ('a') of up to n bytes
RECURSIVE BytesUpTo(_)
BytesUpTo(n) ==
    IF n = 0 THEN {<<>>}
    ELSE BytesUpTo(n - 1)
         \cup {Append(b, c) : b \in {x \in BytesUpTo(n - 1) : Len(x) = n - 1},
                              c \in {0, 97}}

\* A uint64_t is its 8 bytes, least significant first.
ZeroWord == <<0, 0, 0, 0, 0, 0, 0, 0>>

\* the buffer read least significant byte first
bytesToUInt64_LowFirst(returnVal, bufferData) ==
    [k \in 1..8 |-> IF k <= Len(bufferData) THEN bufferData[k] ELSE returnVal[k]]

\* bytesToUInt64: returnVal = (returnVal << 8) + byte, for every byte
RECURSIVE bytesToUInt64(_, _)
bytesToUInt64(returnVal, bufferData) ==
    IF bufferData = <<>> THEN returnVal
    ELSE bytesToUInt64(<<Head(bufferData)>> \o SubSeq(returnVal, 1, 7),
                       Tail(bufferData))

\* seed buffers handed to the constructor
Seeds == {<<1>>, <<2>>}

\* NAN_METHOD(AESXOR256::New): the generator seeded from the buffer; `pos`
\* counts the words drawn from it
AesNew(seedBuffer) == [seed |-> bytesToUInt64(ZeroWord, seedBuffer), pos |-> 0]

RECURSIVE SumBytes(_)
SumBytes(bytes) ==
    IF bytes = <<>> THEN 0 ELSE Head(bytes) + SumBytes(Tail(bytes))

\* pcg64_once_insecure: the n-th word of the stream of `seed`
pcgWord(seed, n) ==
    [i \in 1..8 |-> (SumBytes(seed) * 5 + n * 13 + i * 17 + 1) % 256]

\* the bytes of an int
IntBytes == 4

\* what an int shifted left by its width or more comes to: the hardware
\* takes the count modulo the width, or the result is 0
Builds == {"wrap", "zero"}

\* (0x00000000000000FF) << (8 * i): an int, converted to the 64 bits of
\* *begin by sign extension; byte j of it, j = 0 least significant
ShiftedMask(i, b) ==
    LET at == IF i < IntBytes THEN i
              ELSE IF b = "wrap" THEN i % IntBytes ELSE IntBytes
        top == IF at = IntBytes - 1 THEN 255 ELSE 0
    IN  [j \in 0..7 |-> IF j < IntBytes
                        THEN (IF j = at THEN 255 ELSE 0)
                        ELSE top]

\* ((*begin) & mask) >> (8 * i), narrowed to uint8_t
MaskedByte(word, i, b) ==
    IF ShiftedMask(i, b)[i] = 255 THEN word[i + 1] ELSE 0

\* uInt64toBytes: eight bytes written per word
RECURSIVE uInt64toBytes(_, _)
uInt64toBytes(words, b) ==
    IF words = <<>> THEN <<>>
    ELSE [i \in 1..8 |-> MaskedByte(Head(words), i - 1, b)]
         \o uInt64toBytes(Tail(words), b)

\* getRandom drawing from a copy of the generator
getRandom_NoAdvance(rng, len, b) ==
    LET numRand == IF len % 8 = 0 THEN len \div 8 ELSE len \div 8 + 1
        randomVector == [i \in 1..numRand |-> pcgWord(rng.seed, rng.pos + i)]
    IN  [written |-> uInt64toBytes(randomVector, b), rng |-> rng]

\* getRandom(random, len): the bytes written from `random` on, and the
\* generator after the draws
getRandom(rng, len, b) ==
    LET numRand == IF len % 8 = 0 THEN len \div 8 ELSE len \div 8 + 1
        randomVector == [i \in 1..numRand |-> pcgWord(rng.seed, rng.pos + i)]
    IN  [written |-> uInt64toBytes(randomVector, b),
         rng |-> [rng EXCEPT !.pos = @ + numRand]]

RECURSIVE XorBits(_, _, _)
XorBits(a, b, n) ==
    IF n = 0 THEN 0
    ELSE (((a % 2) + (b % 2)) % 2) + 2 * XorBits(a \div 2, b \div 2, n - 1)

bit_xor(a, b) == XorBits(a, b, 8)

\* xorRandomData: `random` has input.size() bytes; `oob` bytes of what
\* getRandom wrote lie past its end
xorRandomData(rng, input, b) ==
    LET r == getRandom(rng, Len(input), b)
    IN  [output |-> [i \in 1..Len(input) |-> bit_xor(input[i], r.written[i])],
         rng |-> r.rng,
         oob |-> Len(r.written) - Len(input)]

\* the AESXOR256 instances of a run
AesInstances == {"A", "B"}

\* plaintexts of 0, 1, 8 and 9 bytes
Messages == {<<>>, <<7>>, <<1, 2, 3, 4, 5, 6, 7, 8>>,
             <<9, 8, 7, 6, 5, 4, 3, 2, 1>>}

\* AES keys by length and content
AesKeys == {[len |-> AES_KEY_BYTES, id |-> 1], [len |-> AES_KEY_BYTES, id |-> 2],
            [len |-> AES_KEY_BYTES - 1, id |-> 3]}

\* GCM<AES> with the all-zero IV: a keystream and a tag over key and text
GcmStream(key, i) == (key.id * 29 + i * 3 + 5) % 256

GcmTag(key, text) ==
    [j \in 1..TagBytes |->
        (key.id * 101 + SumBytes(text) + 7 * Len(text) + j) % 256]

\* encryptBlock: ciphertext followed by the tag
encryptBlock(key, message) ==
    LET text == [i \in 1..Len(message) |->
                    bit_xor(message[i], GcmStream(key, i))]
    IN  text \o GcmTag(key, text)

\* decryptBlock: throws unless the tag verifies
decryptBlock(key, cipher) ==
    IF Len(cipher) < TagBytes THEN [throws |-> TRUE, message |-> <<>>]
    ELSE LET text == SubSeq(cipher, 1, Len(cipher) - TagBytes)
             tag == SubSeq(cipher, Len(cipher) - TagBytes + 1, Len(cipher))
         IN  IF tag # GcmTag(key, text)
             THEN [throws |-> TRUE, message |-> <<>>]
             ELSE [throws |-> FALSE,
                   message |-> [i \in 1..Len(text) |->
                                   bit_xor(text[i], GcmStream(key, i))]]

IntactHeap == [state |-> "intact", oob |-> 0]

\* the heap after a write of `oob` bytes past the end of a vector: nothing
\* past the end was written, or the bytes landed in the allocator's slack,
\* or they broke the heap and the process dies
HeapsAfter(oob) ==
    IF oob = 0 THEN {IntactHeap}
    ELSE {[state |-> "intact", oob |-> oob], [state |-> "smashed", oob |-> oob]}

KeySizeError == "Incorrect Arguments. Please provide a key of size 32 bytes"

TagError == "HashVerificationFilter: message hash or MAC not valid"

AesCall(op, key, input, ret, threw) ==
    [op |-> op, key |-> key, input |-> input, ret |-> ret, threw |-> threw]

\* a key check that lets keys longer than 32 bytes through
KeySizeRejected_ShortOnly(key) == key.len < AES_KEY_BYTES

\* keyLength != AESNODE_DEFAULT_KEY_LENGTH_BYTES
KeySizeRejected(key) == key.len # AES_KEY_BYTES

ArgumentsError ==
    "Incorrect Arguments. Please provide buffers for 'key' and 'message' function encrypt(key, message)'"

\* e.what() of a CryptoPP::Exception thrown inside encryptBlock
CipherError == "CryptoPP::Exception"

\* what can go wrong in a call apart from its key and its text: nothing,
\* arguments that are missing or no buffers, or encryptBlock throwing
Faults == {"none", "arguments", "cipher"}

\* NAN_METHOD(AESXOR256::encrypt) on instance `inst`: key, message and fault
\* drawn from the given sets
AesEncryptUnder(inst, keys, messages, faults) ==
    \E key \in keys, message \in messages, fault \in faults :
        /\ heap.state = "intact"
        /\ Len(aesLog[inst]) < MaxAesCalls
        /\ IF fault = "arguments"
           THEN /\ aesLog' = [aesLog EXCEPT ![inst] = Append(@,
                        AesCall("encrypt", key, message, Undefined, ArgumentsError))]
                /\ UNCHANGED <<aes, heap>>
           ELSE IF KeySizeRejected(key)
           THEN /\ aesLog' = [aesLog EXCEPT ![inst] = Append(@,
                        AesCall("encrypt", key, message, Undefined, KeySizeError))]
                /\ UNCHANGED <<aes, heap>>
           ELSE LET x == xorRandomData(aes[inst], message, build)
                    cipherData == encryptBlock(key, x.output)
                IN  /\ aes' = [aes EXCEPT ![inst] = x.rng]
                    /\ heap' \in HeapsAfter(x.oob)
                    /\ aesLog' = [aesLog EXCEPT ![inst] = Append(@,
                            AesCall("encrypt", key, message,
                                    IF heap'.state = "intact" /\ fault = "none"
                                    THEN Buffer(cipherData) ELSE Undefined,
                                    IF fault = "cipher" THEN CipherError ELSE ""))]
        /\ UNCHANGED <<procVars, build, objVars>>

\* encrypt with buffers for arguments and a cipher that does not throw
AesEncryptWith(inst, keys, messages) ==
    AesEncryptUnder(inst, keys, messages, {"none"})

AesEncrypt(inst) == AesEncryptWith(inst, AesKeys, Messages)

\* the ciphertexts encrypt calls have returned
Wire ==
    {aesLog[i][n].ret.bytes : <<i, n>> \in
        {<<i, n>> \in (DOMAIN aesLog) \X (1..MaxAesCalls) :
            /\ n <= Len(aesLog[i])
            /\ aesLog[i][n].op = "encrypt"
            /\ aesLog[i][n].ret.kind = "buffer"}}

\* decrypt going on to the whitening step with whatever decryptBlock left
\* in `temp`, also when it threw
AesDecryptOutcome_NoCatch(rng, key, cipher, b) ==
    LET temp == decryptBlock(key, cipher)
        x == xorRandomData(rng, temp.message, b)
    IN  [threw |-> "", output |-> x.output, rng |-> x.rng, oob |-> x.oob]

\* AESXOR256::decrypt past the key check: decryptBlock inside try / catch,
\* then xorRandomData on what it returned
AesDecryptOutcome(rng, key, cipher, b) ==
    LET temp == decryptBlock(key, cipher)
    IN  IF temp.throws
        THEN [threw |-> TagError, output |-> <<>>, rng |-> rng, oob |-> 0]
        ELSE LET x == xorRandomData(rng, temp.message, b)
             IN  [threw |-> "", output |-> x.output, rng |-> x.rng,
                  oob |-> x.oob]

\* NAN_METHOD(AESXOR256::decrypt) on instance `inst`, key and ciphertext
\* drawn from the given sets
AesDecryptWith(inst, keys, ciphers) ==
    \E key \in keys, cipher \in ciphers :
        /\ heap.state = "intact"
        /\ Len(aesLog[inst]) < MaxAesCalls
        /\ IF KeySizeRejected(key)
           THEN /\ aesLog' = [aesLog EXCEPT ![inst] = Append(@,
                        AesCall("decrypt", key, cipher, Undefined, KeySizeError))]
                /\ UNCHANGED <<aes, heap>>
           ELSE LET o == AesDecryptOutcome(aes[inst], key, cipher, build)
                IN  /\ aes' = [aes EXCEPT ![inst] = o.rng]
                    /\ heap' \in (IF o.threw # "" THEN {heap}
                                  ELSE HeapsAfter(o.oob))
                    /\ aesLog' = [aesLog EXCEPT ![inst] = Append(@,
                            AesCall("decrypt", key, cipher,
                                    IF o.threw = "" /\ heap'.state = "intact"
                                    THEN Buffer(o.output) ELSE Undefined,
                                    o.threw))]
        /\ UNCHANGED <<procVars, build, objVars>>

\* decrypt of what the peer's encrypt calls returned
AesDecrypt(inst) == AesDecryptWith(inst, AesKeys, Wire)

SeedError == "Incorrect Arguments. Seed buffer not provided"

\* an AESXOR256 slot before `new AESXOR256(...)` has run for it
NoGenerator == [seed |-> ZeroWord, pos |-> 0]

\* the argument that stands for no key
NoAesKey == [len |-> 0, id |-> 0]

\* NAN_METHOD(AESXOR256::New) for the slot `inst`: info[0] a buffer of up to
\* MaxSeedLen bytes, or no buffer
AesConstruct(inst) ==
    \E given \in BOOLEAN, seedBuffer \in BytesUpTo(MaxSeedLen) :
        /\ aesLog[inst] = <<>>
        /\ ~given => seedBuffer = <<>>
        /\ IF given
           THEN /\ aes' = [aes EXCEPT ![inst] = AesNew(seedBuffer)]
                /\ aesLog' = [aesLog EXCEPT ![inst] =
                        <<AesCall("new", NoAesKey, seedBuffer, True, "")>>]
           ELSE /\ aesLog' = [aesLog EXCEPT ![inst] =
                        <<AesCall("new", NoAesKey, seedBuffer, Undefined, SeedError)>>]
                /\ UNCHANGED aes
        /\ UNCHANGED <<procVars, heap, build, objVars>>

\* keys of every length class: empty, one byte short, 32 bytes, one byte long
AesKeysAnyLength ==
    AesKeys \cup {[len |-> 0, id |-> 4], [len |-> AES_KEY_BYTES + 1, id |-> 5]}

\* messages of 0 and 8 bytes
BlockMessages == {m \in Messages : Len(m) % 8 = 0}

\* what a channel can make of a ciphertext: its tag altered, its last byte
\* lost, or nothing left of it
Forgeries(ciphers) ==
    {<<>>}
    \cup {[c EXCEPT ![Len(c)] = (@ + 1) % 256] : c \in ciphers \ {<<>>}}
    \cup {SubSeq(c, 1, Len(c) - 1) : c \in ciphers \ {<<>>}}

---------------------------------------------------------------------------
(* ECCISAAC objects: construction *)

\* the ECCISAAC objects of a run
EccInstances == {"E1", "E2"}

\* a buffer of n bytes, each of value v
Filled(n, v) == [i \in 1..n |-> v]

\* the buffers handed to the constructor: every length from empty to
\* MaxOverlong bytes past the AES key size
CtorSecrets ==
    {Filled(n, v) : n \in 0..(AES_KEY_BYTES + MaxOverlong), v \in {1, 2}}

\* an ECCISAAC slot before `new ECCISAAC(...)` has run for it; `pair` is
\* history: generateKeys has returned a key pair on this object; `keys` is
\* the object it returned last
NoObject == [made |-> FALSE, secret |-> <<>>, key |-> NoKey, pair |-> FALSE,
             keys |-> Undefined]

\* ECCISAAC::New: obj->_key is the hash of a short buffer, else the buffer
EccObject(buffer) ==
    [made |-> TRUE, secret |-> buffer, key |-> NormalizeKey(buffer),
     pair |-> FALSE, keys |-> Undefined]

\* `new ECCISAAC(buffer)` for the slot `inst`
EccNew(inst) ==
    \E buffer \in CtorSecrets :
        /\ ecc' = [ecc EXCEPT ![inst] = EccObject(buffer)]
        /\ UNCHANGED <<procVars, aesVars, asym, running, digests>>

\* the number of bytes of a protection key
KeySize(key) ==
    IF key.tag = "sha3" THEN AES_KEY_BYTES ELSE Len(key.bytes)

---------------------------------------------------------------------------
(* ECCISAAC objects: the asymmetric cipher *)

\* NAN_METHOD(ECCISAAC::generateKeys) on the object `inst`
EccGenerateKeysOn(inst) ==
    \E oracle \in CoarseOracles, x \in KeyExps, tail \in {"ok"} :
        LET g == generateKeys(disk, ecc[inst].key, oracle, x, tail)
        IN  /\ ecc[inst].made
            /\ ~g.keysMade => (x = 1 /\ tail = "ok")  \* neither was used
            /\ EccGenerateKeysReturns(ecc[inst].key, g)
            /\ ecc' = [ecc EXCEPT
                    ![inst].pair = @ \/ g.ok,
                    ![inst].keys = IF g.ok
                                   THEN KeysObject(g.encodedPub, g.encodedPriv)
                                   ELSE @]
            /\ UNCHANGED <<pool, everOk, aesVars, asym, running, digests>>

\* CryptoPP::HexDecoder: characters that are no hex digit are skipped, a
\* trailing half byte is dropped
HexValue(ch) == (CHOOSE v \in 1..16 : HexDigits[v] = ch) - 1

IsHexDigit(ch) == \E v \in 1..16 : HexDigits[v] = ch

RECURSIVE HexDecoder(_)
HexDecoder(str) ==
    IF str = <<>> THEN <<>>
    ELSE IF ~IsHexDigit(Head(str)) THEN HexDecoder(Tail(str))
    ELSE IF Len(str) = 1 THEN <<>>
    ELSE IF ~IsHexDigit(str[2])
    THEN HexDecoder(<<Head(str)>> \o Tail(Tail(str)))
    ELSE <<HexValue(str[1]) * 16 + HexValue(str[2])>>
         \o HexDecoder(Tail(Tail(str)))

\* the ephemeral randomness AutoSeededRandomPool gives an encryption
EciesNonces == 1..MaxNonce

\* ECIES over secp521r1: the ephemeral element, the masked message and a
\* MAC that depends on the key pair, the ephemeral element and the text
EciesPad(q, r, i) == (q * 13 + r * 17 + i * 3 + 1) % 256

EciesMac(q, r, text) ==
    (q * 31 + r * 5 + SumBytes(text) + 7 * Len(text) + 11) % 256

EciesEncrypt(q, r, message) ==
    LET text == [i \in 1..Len(message) |->
                    bit_xor(message[i], EciesPad(q, r, i))]
    IN  <<r>> \o text \o <<EciesMac(q, r, text)>>

\* PK_DecryptorFilter throws unless the MAC verifies under the private key
EciesDecrypt(x, cipher) ==
    IF Len(cipher) < 2 THEN [throws |-> TRUE, message |-> <<>>]
    ELSE LET q == PublicOf(x)
             r == cipher[1]
             text == SubSeq(cipher, 2, Len(cipher) - 1)
         IN  IF cipher[Len(cipher)] # EciesMac(q, r, text)
             THEN [throws |-> TRUE, message |-> <<>>]
             ELSE [throws |-> FALSE,
                   message |-> [i \in 1..Len(text) |->
                                   bit_xor(text[i], EciesPad(q, r, i))]]

\* a JavaScript string handed back to the caller
StringValue(str) == [Undefined EXCEPT !.kind = "string", !.enc = str]

\* messages of 0, 1 and 2 bytes
AsymMessages == {<<>>, <<7>>, <<200, 1>>}

\* ECCISAAC::encrypt: the hex string or the error it hands back
EccEncryptResult(pubStr, message, r) ==
    LET em == HexDecoder(pubStr)
    IN  IF ~PublicLoads(em)
        THEN [ret |-> Undefined, threw |-> "BER decode error"]
        ELSE [ret |-> StringValue(HexEncoder(EciesEncrypt(em[3], r, message))),
              threw |-> ""]

\* ECCISAAC::decrypt handing back the hex-decoded ciphertext undecrypted
EccDecryptResult_RawText(privStr, cipherStr) ==
    LET dm == HexDecoder(privStr)
    IN  IF ~PrivateLoads(dm)
        THEN [ret |-> Undefined, threw |-> "BER decode error"]
        ELSE [ret |-> Buffer(HexDecoder(cipherStr)), threw |-> ""]

\* ECCISAAC::decrypt: the buffer or the error it hands back
EccDecryptResult(privStr, cipherStr) ==
    LET dm == HexDecoder(privStr)
    IN  IF ~PrivateLoads(dm)
        THEN [ret |-> Undefined, threw |-> "BER decode error"]
        ELSE LET d == EciesDecrypt(dm[3], HexDecoder(cipherStr))
             IN  IF d.throws
                 THEN [ret |-> Undefined,
                       threw |-> "ECIES: invalid ciphertext"]
                 ELSE [ret |-> Buffer(d.message), threw |-> ""]

\* the key objects generateKeys has returned to the script
KeysHeld == {ecc[i].keys : i \in {j \in DOMAIN ecc : ecc[j].keys.kind = "keys"}}

\* the hex ciphertexts encrypt has returned to the script
CiphersHeld ==
    {asym[n].ret.enc : n \in {k \in DOMAIN asym : asym[k].ret.kind = "string"}}

AsymCall(op, inst, keyStr, message, cipherStr, result) ==
    [op |-> op, inst |-> inst, fresh |-> ~ecc[inst].pair, keyStr |-> keyStr,
     message |-> message, cipherStr |-> cipherStr,
     ret |-> result.ret, threw |-> result.threw]

\* encrypt taking its randomness from the process-wide pool and leaving the
\* pool destroyed
EccEncrypt_OnSharedPool(inst) ==
    \E keys \in KeysHeld, message \in AsymMessages, r \in EciesNonces :
        /\ ecc[inst].made
        /\ Len(asym) < MaxAsymCalls
        /\ asym' = Append(asym,
                AsymCall("encrypt", inst, keys.enc, message, <<>>,
                         EccEncryptResult(keys.enc, message, r)))
        /\ pool' = PoolAfterDestroy(pool)
        /\ UNCHANGED <<disk, workers, last, everOk, aesVars, ecc, running, digests>>

\* NAN_METHOD(ECCISAAC::encrypt) on the object `inst`, with a public key
\* string the script holds
EccEncrypt(inst) ==
    \E keys \in KeysHeld, message \in AsymMessages, r \in EciesNonces :
    \E pubStr \in {keys.enc} :
        /\ ecc[inst].made
        /\ Len(asym) < MaxAsymCalls
        /\ asym' = Append(asym,
                AsymCall("encrypt", inst, pubStr, message, <<>>,
                         EccEncryptResult(pubStr, message, r)))
        /\ UNCHANGED <<procVars, aesVars, ecc, running, digests>>

\* NAN_METHOD(ECCISAAC::decrypt) on the object `inst`, with a key string
\* and a ciphertext the script holds
EccDecrypt(inst) ==
    \E keys \in KeysHeld, cipherStr \in CiphersHeld :
    \E privStr \in {keys.enc, keys.dec} :
        /\ ecc[inst].made
        /\ Len(asym) < MaxAsymCalls
        /\ asym' = Append(asym,
                AsymCall("decrypt", inst, privStr, <<>>, cipherStr,
                         EccDecryptResult(privStr, cipherStr)))
        /\ UNCHANGED <<procVars, aesVars, ecc, running, digests>>

---------------------------------------------------------------------------
(* seifsha3.cc: the SHA3-256 wrapper *)

\* std::string(const char*): the bytes before the first NUL
RECURSIVE CString(_)
CString(chars) ==
    IF chars = <<>> \/ Head(chars) = 0 THEN <<>>
    ELSE <<Head(chars)>> \o CString(Tail(chars))

hashBuffer(input) == SHA3_256(input)

\* SEIFSHA3::hash: hashString(digest, *str) for a string argument,
\* hashBuffer(digest, bufferData, bufferLength) for a buffer
SeifHashResult(form, bytes) ==
    IF form = "string" THEN hashString(CString(bytes)) ELSE hashBuffer(bytes)

\* NAN_METHOD(SEIFSHA3::hash)
SeifHash ==
    \E form \in {"string", "buffer"}, bytes \in BytesUpTo(MaxHashLen) :
        /\ Len(digests) < MaxHashCalls
        /\ digests' = Append(digests,
                [form |-> form, bytes |-> bytes,
                 ret |-> SeifHashResult(form, bytes)])
        /\ UNCHANGED <<procVars, aesVars, ecc, asym, running>>

---------------------------------------------------------------------------
(* Threads inside l_PRNG *)

\* thread 0 is the event-loop thread, thread w the libuv pool thread that
\* runs the Execute of worker w
MainThread == 0

\* the l_PRNG members Worker::Execute calls, as if getBytes were queued too
PoolThreadOps_WithGenerate == {"IsInitialized", "GenerateBlock"}

\* the l_PRNG members called on a pool thread (RNG::Worker::Execute) and on
\* the event-loop thread (NAN_METHODs getBytes and destroy)
PoolThreadOps == {"IsInitialized"}

MainThreadOps == {"GenerateBlock", "Destroy"}

\* JavaScript runs on the event-loop thread only, one call at a time
MainIdle == running[MainThread] = "idle"

\* getBytes / destroy: the event-loop thread enters the l_PRNG member
MainEnter ==
    \E op \in MainThreadOps :
        /\ MainIdle
        /\ running' = [running EXCEPT ![MainThread] = op]
        /\ UNCHANGED <<procVars, aesVars, ecc, asym, digests>>

\* ... and comes back from it
MainLeave ==
    /\ ~MainIdle
    /\ running' = [running EXCEPT ![MainThread] = "idle"]
    /\ IF running[MainThread] = "Destroy"
       THEN /\ disk' = PoolDestroyDisk(pool, disk)
            /\ pool' = PoolAfterDestroy(pool)
       ELSE UNCHANGED <<disk, pool>>
    /\ UNCHANGED <<workers, last, everOk, aesVars, ecc, asym, digests>>

\* Worker::Execute on its pool thread enters the l_PRNG member
ExecuteEnter(w) ==
    \E op \in PoolThreadOps :
        /\ workers[w].kind = "rng"
        /\ workers[w].phase = "queued"
        /\ running[w] = "idle"
        /\ running' = [running EXCEPT ![w] = op]
        /\ workers' = [workers EXCEPT ![w].phase = "running"]
        /\ UNCHANGED <<disk, pool, last, everOk, aesVars, ecc, asym, digests>>

\* ... and comes back from it
ExecuteLeave(w) ==
    /\ workers[w].phase = "running"
    /\ RngExecuteReturns(w)
    /\ running' = [running EXCEPT ![w] = "idle"]
    /\ UNCHANGED <<disk, last, aesVars, ecc, asym, digests>>

\* isInitialized called by the script, and a completion callback, both on
\* the event-loop thread
MainQueues == MainIdle /\ RngIsInitialized

MainCompletes(w) == MainIdle /\ WorkComplete(w)

---------------------------------------------------------------------------
(* The addon process: RNG and ECCISAAC calls with their workers *)

\* Files earlier runs can have left behind: a generator state, a private
\* key or something that is not a private key at the private-key path, and
\* a public key written under either secret's key
OldKey == NormalizeKey(<<1>>)

InitDisks ==
    {[p \in Paths |->
        IF p = RNG_STATE_FILE_NAME THEN r
        ELSE IF p = PRIV_KEY_FILE_NAME THEN v ELSE u] :
        r \in {NoFile, [key |-> OldKey, data |-> RngStateBlob]},
        v \in {NoFile, [key |-> OldKey, data |-> SavePrivate(1)],
                [key |-> OldKey, data |-> RngStateBlob]},
        u \in {NoFile, [key |-> OldKey, data |-> SavePublic(PublicOf(1))],
                [key |-> NormalizeKey(<<2>>), data |-> SavePublic(PublicOf(1))]}}

NoKeyFiles(d) == d[PRIV_KEY_FILE_NAME] = NoFile /\ d[PUB_KEY_FILE_NAME] = NoFile

ProcInit ==
    /\ pool = FreshPool
    /\ workers = <<>>
    /\ last = NoCall
    /\ everOk = FALSE

AesIdle ==
    /\ aes = <<>>
    /\ aesLog = <<>>
    /\ heap = IntactHeap
    /\ build = "none"

\* no ECCISAAC object constructed, no thread inside a pool operation
ObjIdle ==
    /\ ecc = <<>>
    /\ asym = <<>>
    /\ running = <<>>
    /\ digests = <<>>

Init ==
    /\ disk \in InitDisks
    /\ ProcInit
    /\ AesIdle
    /\ ObjIdle

Next ==
    \/ RngIsInitialized
    \/ RngInitialize
    \/ RngGetBytes
    \/ RngDestroy
    \/ EccLoadKeys
    \/ EccGenerateKeys
    \/ \E w \in DOMAIN workers : RngExecute(w)
    \/ \E w \in DOMAIN workers : EccExecutePriv(w)
    \/ \E w \in DOMAIN workers : EccExecutePub(w)
    \/ \E w \in DOMAIN workers : WorkComplete(w)

Spec == Init /\ [][Next]_vars

\* The synchronous calls alone
InitSync == Init /\ NoKeyFiles(disk)

SyncNext ==
    \/ RngInitialize
    \/ RngGetBytes
    \/ RngDestroy
    \/ EccGenerateKeysRetrying

SpecSync == InitSync /\ [][SyncNext]_vars

\* The RNG wrapper alone, with its state checks
InitRng == Init /\ NoKeyFiles(disk)

RngNext ==
    \/ RngIsInitialized
    \/ RngInitializeCoarse
    \/ RngGetBytes
    \/ RngDestroy
    \/ \E w \in DOMAIN workers : RngExecute(w)
    \/ \E w \in DOMAIN workers : WorkComplete(w)

SpecRng == InitRng /\ [][RngNext]_vars

\* The asynchronous calls alone, against the files earlier runs left
LoadNext ==
    \/ RngIsInitialized
    \/ EccLoadKeys
    \/ \E w \in DOMAIN workers : RngExecute(w)
    \/ \E w \in DOMAIN workers : EccExecutePriv(w)
    \/ \E w \in DOMAIN workers : EccExecutePub(w)
    \/ \E w \in DOMAIN workers : WorkComplete(w)

\* libuv runs every queued work item and then its completion
LoadFairness ==
    /\ WF_vars(\E w \in DOMAIN workers : RngExecute(w))
    /\ WF_vars(\E w \in DOMAIN workers : EccExecutePriv(w))
    /\ WF_vars(\E w \in DOMAIN workers : EccExecutePub(w))
    /\ WF_vars(\E w \in DOMAIN workers : WorkComplete(w))

SpecLoad == Init /\ [][LoadNext]_vars /\ LoadFairness

\* The key lifecycle: generateKeys on the main thread racing a load worker
InitEcc == Init /\ disk = [p \in Paths |-> NoFile]

EccNext ==
    \/ EccLoadKeysRacing
    \/ EccGenerateKeysCoarse
    \/ \E w \in DOMAIN workers : EccExecutePriv(w)
    \/ \E w \in DOMAIN workers : EccExecutePub(w)
    \/ \E w \in DOMAIN workers : WorkComplete(w)

SpecEcc == InitEcc /\ [][EccNext]_vars

\* Two AESXOR256 instances, A sending and B receiving
InitAes ==
    /\ disk = [p \in Paths |-> NoFile]
    /\ ProcInit
    /\ \E sa \in Seeds, sb \in Seeds :
            aes = [i \in AesInstances |-> IF i = "A" THEN AesNew(sa) ELSE AesNew(sb)]
    /\ aesLog = [i \in AesInstances |-> <<>>]
    /\ heap = IntactHeap
    /\ build \in Builds
    /\ ObjIdle

AesNext ==
    \/ AesEncrypt("A")
    \/ AesDecrypt("B")

SpecAes == InitAes /\ [][AesNext]_vars

\* Construction of an AESXOR256 object from seed buffers of every length up
\* to MaxSeedLen bytes
InitSeed ==
    /\ disk = [p \in Paths |-> NoFile]
    /\ ProcInit
    /\ aes = [i \in AesInstances |-> NoGenerator]
    /\ aesLog = [i \in AesInstances |-> <<>>]
    /\ heap = IntactHeap
    /\ build \in Builds
    /\ ObjIdle

SpecSeed == InitSeed /\ [][AesConstruct("A")]_vars

\* One instance encrypting and decrypting its own ciphertexts
PadNext ==
    \/ AesEncrypt("A")
    \/ AesDecrypt("A")

SpecPad == InitAes /\ [][PadNext]_vars

\* A sending and B receiving over a channel that can damage ciphertexts,
\* with keys of any length
AesFaultNext ==
    \/ AesEncryptWith("A", AesKeysAnyLength, BlockMessages)
    \/ AesDecryptWith("B", AesKeysAnyLength, Wire \cup Forgeries(Wire))

InitAesFaults == InitAes /\ aes["A"] = aes["B"]

SpecAesFaults == InitAesFaults /\ [][AesFaultNext]_vars

\* A sending and B receiving, with calls that fail for every reason
FailureNext ==
    \/ AesEncryptUnder("A", AesKeys, BlockMessages, Faults)
    \/ AesDecryptWith("B", AesKeys, Wire \cup Forgeries(Wire))

SpecAesFailures == InitAesFaults /\ [][FailureNext]_vars

\* Construction of ECCISAAC objects from caller secrets of every length
InitNew ==
    /\ disk = [p \in Paths |-> NoFile]
    /\ ProcInit
    /\ AesIdle
    /\ ecc = [i \in EccInstances |-> NoObject]
    /\ asym = <<>>
    /\ running = <<>>
    /\ digests = <<>>

NewNext ==
    \/ EccNew("E1")
    \/ EccNew("E2")

SpecNew == InitNew /\ [][NewNext]_vars

\* Two ECCISAAC objects over one key folder, generating keys and using them
InitAsym ==
    /\ disk = [p \in Paths |-> NoFile]
    /\ ProcInit
    /\ AesIdle
    /\ ecc = [i \in EccInstances |->
                IF i = "E1" THEN EccObject(<<1>>) ELSE EccObject(<<2>>)]
    /\ asym = <<>>
    /\ running = <<>>
    /\ digests = <<>>

AsymNext ==
    \/ \E i \in EccInstances : EccGenerateKeysOn(i)
    \/ \E i \in EccInstances : EccEncrypt(i)
    \/ \E i \in EccInstances : EccDecrypt(i)

SpecAsym == InitAsym /\ [][AsymNext]_vars

\* The event-loop thread and the pool threads going in and out of l_PRNG
InitThreads ==
    /\ disk \in InitDisks
    /\ NoKeyFiles(disk)
    /\ ProcInit
    /\ AesIdle
    /\ ecc = <<>>
    /\ asym = <<>>
    /\ running = [t \in {MainThread} \cup (1..MaxWorkers) |-> "idle"]
    /\ digests = <<>>

ThreadsNext ==
    \/ MainEnter
    \/ MainLeave
    \/ MainQueues
    \/ \E w \in DOMAIN workers : ExecuteEnter(w)
    \/ \E w \in DOMAIN workers : ExecuteLeave(w)
    \/ \E w \in DOMAIN workers : MainCompletes(w)

SpecThreads == InitThreads /\ [][ThreadsNext]_vars

\* SEIFSHA3.hash called on strings and buffers
InitHash ==
    /\ disk = [p \in Paths |-> NoFile]
    /\ ProcInit
    /\ AesIdle
    /\ ObjIdle

SpecHash == InitHash /\ [][SeifHash]_vars

---------------------------------------------------------------------------
(* Properties *)

\* A and B were created from the same seed; every call on A so far is an
\* encrypt under the 32-byte key `key` that returned a ciphertext, and B's
\* calls so far are decrypts under `key` of A's ciphertexts, in A's order
InSync(key) ==
    /\ aes["A"].seed = aes["B"].seed
    /\ key.len = AES_KEY_BYTES
    /\ Len(aesLog["B"]) <= Len(aesLog["A"])
    /\ \A i \in 1..Len(aesLog["A"]) :
        /\ aesLog["A"][i].op = "encrypt"
        /\ aesLog["A"][i].key = key
        /\ aesLog["A"][i].ret.kind = "buffer"
    /\ \A i \in 1..Len(aesLog["B"]) :
        /\ aesLog["B"][i].op = "decrypt"
        /\ aesLog["B"][i].key = key
        /\ aesLog["B"][i].input = aesLog["A"][i].ret.bytes

\* C1: when A and B share a seed, A encrypts m1..mk in order under a 32-byte
\* key and B decrypts c1..ck in the same order under that key with no other
\* call on either, every decrypt on B returns exactly mi, whatever the
\* length of mi (0, a multiple of 8 or not).
C1_RoundTripUnderSync ==
    \A key \in AesKeys :
        InSync(key) =>
            \A i \in 1..Len(aesLog["B"]) :
                aesLog["B"][i].ret = Buffer(aesLog["A"][i].input)

\* the attempts of the latest initialize / generateKeys call
Attempts == last.attempts

SomeAttemptOk == \E i \in 1..Len(Attempts) : Attempts[i][2] = "ok"

\* C2: generateKeys constructs the key pair only after one of its Initialize
\* attempts returned true (its pool is then Ready); when the attempts run
\* out or one throws, it returns no keys, makes none and writes no file.
C2_NoKeysBeforeEntropy ==
    last.op = "generateKeys" =>
        /\ last.keysMade => (SomeAttemptOk /\ last.poolOk)
        /\ ~SomeAttemptOk =>
            (~last.keysMade /\ last.ret = Undefined /\ last.saved = <<>>
             /\ last.threw # "")

C2_Witness ==
    /\ last.op = "generateKeys"
    /\ last.keysMade
    /\ Len(Attempts) = 3

\* C3: RNG.initialize and generateKeys call Initialize with multipliers
\* 0, 1, 2, ... in order, make no attempt after one that returned true or
\* threw, make at most 6 attempts, and initialize returns true exactly when
\* some attempt returned true.
C3_RetryProtocol ==
    last.op \in {"initialize", "generateKeys"} =>
        /\ Len(Attempts) <= 6
        /\ \A i \in 1..Len(Attempts) : Attempts[i][1] = i - 1
        /\ \A i \in 1..(Len(Attempts) - 1) : Attempts[i][2] = "low"
        /\ last.op = "initialize" => (last.ret = True <=> SomeAttemptOk)
        /\ last.op = "generateKeys" => (last.ret # Undefined => SomeAttemptOk)

C3_Witness ==
    /\ last.op = "initialize"
    /\ Len(Attempts) = 6
    /\ Attempts[6] = <<5, "ok">>
    /\ last.ret = True

\* C4: an initialize that fails all 6 effort levels on a pool that was not
\* Ready throws the entropy error, does not return true and leaves the pool
\* not Ready; a getBytes call made next fails with the RNG-not-initialized
\* error and returns no buffer.
C4_ExhaustedInitLeavesNotReady ==
    /\ EntropyExhausted(last) =>
        /\ last.threw = "Not enough entropy!"
        /\ last.ret # True
        /\ ~last.readyAfter
        /\ pool.state # "Ready"
    /\ (last.op = "getBytes" /\ last.afterExhausted) =>
        /\ last.threw = "RNG not initialized"
        /\ last.ret = Undefined

C4_Witness ==
    /\ last.op = "getBytes"
    /\ last.afterExhausted
    /\ last.arg.given
    /\ last.threw = "RNG not initialized"

\* C5: getBytes before any initialize or state check has succeeded throws
\* the RNG-not-initialized error and returns no buffer; on a pool made Ready
\* by a successful initialize, getBytes(0) and getBytes() return an empty
\* buffer and getBytes(n) a buffer of exactly n bytes.
C5_GetBytesContract ==
    last.op = "getBytes" =>
        /\ ~last.okBefore =>
            (last.threw = "RNG not initialized" /\ last.ret = Undefined)
        /\ last.ready =>
            /\ last.threw = ""
            /\ last.ret.kind = "buffer"
            /\ Len(last.ret.bytes) = (IF last.arg.given THEN last.arg.n ELSE 0)

C5_Witness ==
    /\ last.op = "getBytes"
    /\ last.ready
    /\ last.arg.given
    /\ last.arg.n = MaxBytes
    /\ Len(last.ret.bytes) = MaxBytes

\* the two forms a completion callback can take
SuccessForm(wk, c) ==
    /\ c.form = "ok"
    /\ c.code = 0
    /\ c.message = "Success"
    /\ IF wk.kind = "ecc" THEN c.keys.kind = "keys" ELSE c.keys = Undefined

FailureForm(wk, c) ==
    /\ c.form = "error"
    /\ c.message \in {"File Not Found", "Decryption Error", "Unknown Error"}
    /\ c.keys = Undefined

CallbackForms ==
    \A w \in DOMAIN workers :
        /\ Len(workers[w].calls) <= 1
        /\ workers[w].phase = "completed" <=> Len(workers[w].calls) = 1
        /\ \A n \in 1..Len(workers[w].calls) :
            /\ SuccessForm(workers[w], workers[w].calls[n])
                \/ FailureForm(workers[w], workers[w].calls[n])
            /\ ~(SuccessForm(workers[w], workers[w].calls[n])
                 /\ FailureForm(workers[w], workers[w].calls[n]))
            /\ SuccessForm(workers[w], workers[w].calls[n])
                <=> workers[w].errmsg = ""

ActuallySucceeded(wk) ==
    wk.statusSet /\ wk.status = SUCCESS /\ wk.errmsg = ""

\* C7: whenever isInitialized or loadKeys delivers through the error
\* callback, also when loading threw inside the worker, the code passed is
\* not 0; code 0 is delivered only when the operation succeeded.
C7_FailureNeverCodeZero ==
    \A w \in DOMAIN workers :
        \A n \in 1..Len(workers[w].calls) :
            /\ workers[w].calls[n].form = "error" => workers[w].calls[n].code # 0
            /\ workers[w].calls[n].code = 0 => ActuallySucceeded(workers[w])

\* what the key files are to a worker holding `key`
PrivAbsent == ~fileExists(disk, PRIV_KEY_FILE_NAME)
PubAbsent == ~fileExists(disk, PUB_KEY_FILE_NAME)
PrivDecrypts(key) == readFile(disk, PRIV_KEY_FILE_NAME, key)
PubDecrypts(key) == readFile(disk, PUB_KEY_FILE_NAME, key)
PrivLoads(key) ==
    PrivDecrypts(key) /\ PrivateLoads(disk[PRIV_KEY_FILE_NAME].data)

\* the loadKeys workers whose Execute has run
Loaded == {w \in DOMAIN workers :
            workers[w].kind = "ecc"
            /\ workers[w].phase \in {"executed", "completed"}}

Returned(wk, status) == wk.statusSet /\ wk.status = status

\* C8 as stated: loadKeys returns FileNotFound whenever a key file is
\* absent, whatever the other file is like, DecryptionError when both are
\* present and one does not decrypt, and Success only when both decrypt.
C8_FileNotFoundFirst ==
    \A w \in Loaded :
        LET wk == workers[w] IN
        /\ (PrivAbsent \/ PubAbsent) => Returned(wk, FILE_NOT_FOUND)
        /\ (~PrivAbsent /\ ~PubAbsent
            /\ (~PrivDecrypts(wk.key) \/ ~PubDecrypts(wk.key)))
                => Returned(wk, DECRYPTION_ERROR)
        /\ Returned(wk, SUCCESS) => (PrivDecrypts(wk.key) /\ PubDecrypts(wk.key))

\* C8 amended: the private-key file decides first, FileNotFound when it is
\* absent and DecryptionError when it does not decrypt; once it has loaded,
\* the public-key file decides in the same way; Success, with both hex keys,
\* is returned only when both decrypt.
C8_PrivateKeyFileFirst ==
    \A w \in Loaded :
        LET wk == workers[w] IN
        /\ PrivAbsent => Returned(wk, FILE_NOT_FOUND)
        /\ (~PrivAbsent /\ ~PrivDecrypts(wk.key)) => Returned(wk, DECRYPTION_ERROR)
        /\ (PrivLoads(wk.key) /\ PubAbsent) => Returned(wk, FILE_NOT_FOUND)
        /\ (PrivLoads(wk.key) /\ ~PubAbsent /\ ~PubDecrypts(wk.key))
                => Returned(wk, DECRYPTION_ERROR)
        /\ Returned(wk, SUCCESS) =>
            /\ PrivDecrypts(wk.key) /\ PubDecrypts(wk.key)
            /\ wk.encodedPriv # <<>> /\ wk.encodedPub # <<>>

C8_Witness ==
    \E w \in Loaded :
        /\ ~PrivAbsent /\ ~PrivDecrypts(workers[w].key)
        /\ PubAbsent
        /\ Returned(workers[w], DECRYPTION_ERROR)

\* a completed worker delivered DecryptionError through the error callback
DeliveredDecryptionError(wk) ==
    /\ Len(wk.calls) = 1
    /\ wk.calls[1] = Callback("error", DECRYPTION_ERROR, "Decryption Error",
                              Undefined)

\* C9: a key file or generator-state file that exists but was written under
\* another protection key makes the load or check that reads it report
\* DecryptionError with 'Decryption Error' through the error callback,
\* never Success, and the worker completes.
C9_WrongKeyIsDecryptionError ==
    \A w \in DOMAIN workers :
        LET wk == workers[w]
            wrongKey ==
                IF wk.kind = "rng"
                THEN fileExists(disk, wk.path) /\ ~readFile(disk, wk.path, wk.key)
                ELSE \/ ~PrivAbsent /\ ~PrivDecrypts(wk.key)
                     \/ PrivLoads(wk.key) /\ ~PubAbsent /\ ~PubDecrypts(wk.key)
        IN  wrongKey =>
                /\ wk.phase \in {"executed", "completed"} =>
                    (Returned(wk, DECRYPTION_ERROR) /\ wk.errmsg = "Decryption Error")
                /\ wk.phase = "completed" => DeliveredDecryptionError(wk)

C9_Witness ==
    \E w \in DOMAIN workers :
        /\ workers[w].kind = "ecc"
        /\ PrivLoads(workers[w].key)
        /\ ~PubAbsent /\ ~PubDecrypts(workers[w].key)
        /\ DeliveredDecryptionError(workers[w])

\* C10: a loadKeys queued right after a successful generateKeys under the
\* same protection key and folder, with no generateKeys while it loads,
\* succeeds and delivers the hex strings generateKeys returned.
C10_KeyPersistenceRoundTrip ==
    \A w \in DOMAIN workers :
        LET wk == workers[w] IN
        (wk.kind = "ecc" /\ wk.expect.kind = "keys") =>
            /\ wk.phase \in {"executed", "completed"} =>
                /\ ActuallySucceeded(wk)
                /\ wk.encodedPub = wk.expect.enc
                /\ wk.encodedPriv = wk.expect.dec
            /\ wk.phase = "completed" =>
                wk.calls = <<Callback("ok", 0, "Success", wk.expect)>>

C10_Witness ==
    \E w \in DOMAIN workers :
        /\ workers[w].expect = KeysObject(HexEncoder(SavePublic(PublicOf(2))),
                                          HexEncoder(SavePrivate(2)))
        /\ workers[w].calls = <<Callback("ok", 0, "Success", workers[w].expect)>>

\* C11: every constructed ECCISAAC object holds a 32-byte protection key,
\* which is SHA3-256 of the secret when the secret is shorter than 32 bytes
\* and the first 32 bytes of the secret otherwise.
C11_KeyNormalization ==
    \A i \in DOMAIN ecc :
        ecc[i].made =>
            /\ KeySize(ecc[i].key) = AES_KEY_BYTES
            /\ IF Len(ecc[i].secret) < AES_KEY_BYTES
               THEN ecc[i].key = SHA3_256(ecc[i].secret)
               ELSE ecc[i].key.bytes = SubSeq(ecc[i].secret, 1, AES_KEY_BYTES)

\* the secrets shorter than the AES key size
ShortSecrets == {s \in Secrets : Len(s) < AES_KEY_BYTES}

\* a loadKeys worker starts Execute in this step, under another short
\* secret's key than the one the latest, successful generateKeys used
LoadsUnderOtherSecret(w) ==
    /\ workers[w].kind = "ecc"
    /\ workers[w].phase = "queued"
    /\ workers'[w].phase # "queued"
    /\ last.ret.kind = "keys"
    /\ \E s \in ShortSecrets, t \in ShortSecrets :
            /\ Len(s) = Len(t) /\ s # t
            /\ last.key = NormalizeKey(s)
            /\ workers[w].key = NormalizeKey(t)

\* C12: with a secret shorter than 32 bytes, the key files generateKeys
\* writes are encrypted under SHA3-256 of the secret; a loadKeys with the
\* same secret succeeds; a loadKeys with a different secret of the same
\* length fails with DecryptionError.
C12_ShortSecretScenario ==
    /\ [](last.ret.kind = "keys" =>
            \E s \in ShortSecrets :
                /\ last.key = SHA3_256(s)
                /\ disk[PRIV_KEY_FILE_NAME].key = SHA3_256(s)
                /\ disk[PUB_KEY_FILE_NAME].key = SHA3_256(s))
    /\ [](\A w \in Loaded :
            workers[w].expect.kind = "keys" => ActuallySucceeded(workers[w]))
    /\ [][\A w \in DOMAIN workers :
            LoadsUnderOtherSecret(w) =>
                /\ workers'[w].phase = "executed"
                /\ Returned(workers'[w], DECRYPTION_ERROR)
                /\ workers'[w].errmsg = "Decryption Error"]_vars
    /\ [](\A w \in DOMAIN workers :
            (workers[w].phase = "completed"
             /\ Returned(workers[w], DECRYPTION_ERROR))
                => DeliveredDecryptionError(workers[w]))

C12_Witness ==
    \E w \in DOMAIN workers :
        /\ last.op = "generateKeys" /\ last.ret.kind = "keys"
        /\ last.key = SHA3_256(<<1>>)
        /\ workers[w].key = SHA3_256(<<2>>)
        /\ DeliveredDecryptionError(workers[w])

\* C13: whenever generateKeys does not return a key object (entropy
\* exhaustion, a hardware exception, a key failing validation, a failure
\* saving either file), an error with a message has been thrown to the
\* caller; it never returns empty silently.
C13_FailuresAreThrown ==
    (last.op = "generateKeys" /\ last.ret.kind # "keys") => last.threw # ""

\* the generateKeys faults that come before any file is written
FaultsBeforeSaving == {"Not enough entropy!", "invalid"}

C15_KeyPairStateMachine ==
    \A n \in DOMAIN asym :
        asym[n].fresh => (asym[n].ret.kind = "undefined" /\ asym[n].threw # "")

\* the key objects a successful generateKeys can return
KeyPairs ==
    {KeysObject(HexEncoder(SavePublic(PublicOf(x))), HexEncoder(SavePrivate(x))) :
        x \in KeyExps}

\* call d decrypts, under the private key of `keys`, the string that call e
\* returned when it encrypted under the public key of `keys`
DecryptsWhatWasEncrypted(e, d, keys) ==
    /\ asym[e].op = "encrypt" /\ asym[e].ret.kind = "string"
    /\ asym[e].keyStr = keys.enc
    /\ asym[d].op = "decrypt"
    /\ asym[d].keyStr = keys.dec
    /\ asym[d].cipherStr = asym[e].ret.enc

\* C20: for every message, the empty one included, and every key pair a
\* successful generateKeys returned, decrypting with the private key what
\* encrypt produced under the public key gives the message back.
C20_AsymmetricRoundTrip ==
    \A e \in DOMAIN asym, d \in DOMAIN asym, keys \in KeyPairs :
        DecryptsWhatWasEncrypted(e, d, keys) =>
            /\ asym[d].threw = ""
            /\ asym[d].ret = Buffer(asym[e].message)

C20_Witness ==
    \E keys \in KeysHeld :
        /\ Len(asym) = 2
        /\ DecryptsWhatWasEncrypted(1, 2, keys)
        /\ asym[1].message = <<>>
        /\ asym[2].ret = Buffer(<<>>)

\* the tag at the end of `cipher` is the one `key` gives the text before it
TagVerifies(key, cipher) ==
    /\ Len(cipher) >= TagBytes
    /\ SubSeq(cipher, Len(cipher) - TagBytes + 1, Len(cipher))
        = GcmTag(key, SubSeq(cipher, 1, Len(cipher) - TagBytes))

\* the decrypt calls made under a 32-byte key on a ciphertext whose tag
\* does not verify under that key
FailedVerifications ==
    {<<i, n>> \in (DOMAIN aesLog) \X (1..MaxAesCalls) :
        /\ n <= Len(aesLog[i])
        /\ aesLog[i][n].op = "decrypt"
        /\ aesLog[i][n].key.len = AES_KEY_BYTES
        /\ ~TagVerifies(aesLog[i][n].key, aesLog[i][n].input)}

\* C16: AESXOR256.decrypt of a ciphertext whose authentication tag does not
\* verify under the key, one shorter than the tag included, throws an error
\* and returns no buffer.
C16_TagFailureThrows ==
    \A c \in FailedVerifications :
        /\ aesLog[c[1]][c[2]].ret = Undefined
        /\ aesLog[c[1]][c[2]].threw # ""

C16_Witness ==
    \E c \in FailedVerifications :
        /\ Len(aesLog[c[1]][c[2]].input) < TagBytes
        /\ aesLog[c[1]][c[2]].threw = TagError

\* the calls made with a key that is not 32 bytes long
WrongSizeKeyCalls ==
    {<<i, n>> \in (DOMAIN aesLog) \X (1..MaxAesCalls) :
        /\ n <= Len(aesLog[i])
        /\ aesLog[i][n].key.len # AES_KEY_BYTES}

\* C17: AESXOR256 encrypt and decrypt fail with an error and return no
\* buffer for every key whose length is not 32 bytes: empty, shorter, longer.
C17_KeyLengthChecked ==
    \A c \in WrongSizeKeyCalls :
        /\ aesLog[c[1]][c[2]].ret = Undefined
        /\ aesLog[c[1]][c[2]].threw = KeySizeError

C17_Witness ==
    /\ \E c \in WrongSizeKeyCalls :
        /\ aesLog[c[1]][c[2]].op = "encrypt"
        /\ aesLog[c[1]][c[2]].key.len = 0
        /\ aesLog[c[1]][c[2]].threw = KeySizeError
    /\ \E c \in WrongSizeKeyCalls :
        /\ aesLog[c[1]][c[2]].op = "decrypt"
        /\ aesLog[c[1]][c[2]].key.len > AES_KEY_BYTES
        /\ aesLog[c[1]][c[2]].threw = KeySizeError

InsideGetBytesOrDestroy ==
    {t \in DOMAIN running : running[t] \in {"GenerateBlock", "Destroy"}}

\* C19: getBytes and destroy on the shared pool are serialized: at no time
\* are two threads inside GenerateBlock or Destroy, so no getBytes overlaps
\* another getBytes or a destroy.
C19_GetBytesDestroySerialized ==
    Cardinality(InsideGetBytesOrDestroy) <= 1

C19_Witness ==
    /\ running[MainThread] = "Destroy"
    /\ \E w \in DOMAIN workers : running[w] = "IsInitialized"
    /\ pool.state = "Ready"

C22_HashIsPure ==
    \A i \in DOMAIN digests, j \in DOMAIN digests :
        /\ KeySize(digests[i].ret) = AES_KEY_BYTES
        /\ digests[i].bytes = digests[j].bytes => digests[i].ret = digests[j].ret

\* C23: getRandom(random, len) draws ceil(len / 8) words and writes exactly
\* len bytes into the len-byte destination: no call of encrypt or decrypt
\* leaves a byte written at or beyond index len, for any len.
C23_NoWritePastLen == heap.oob = 0

\* ceil(n / 8)
WordsFor(n) == IF n % 8 = 0 THEN n \div 8 ELSE n \div 8 + 1

\* the bytes a call whitens: the plaintext of encrypt, the text decrypt
\* recovered
Whitened(c) ==
    IF c.op = "encrypt" THEN c.input ELSE decryptBlock(c.key, c.input).message

\* the pad of n bytes that starts at the word after rng.pos
PadAfter(rng, n) ==
    uInt64toBytes([k \in 1..WordsFor(n) |-> pcgWord(rng.seed, rng.pos + k)],
                  build)

WhitenedWith(rng, text) ==
    [k \in 1..Len(text) |-> bit_xor(text[k], PadAfter(rng, Len(text))[k])]

LittleEndianPad(seed, n) ==
    [k \in 1..n |-> pcgWord(seed, ((k - 1) \div 8) + 1)[((k - 1) % 8) + 1]]

\* C25: uInt64toBytes lays each word out little-endian, out[8k + i] =
\* (w >> 8i) mod 256 for i in 0..7, with the mask and the shift evaluated in
\* the operand widths of the code: the first ciphertext of an instance is
\* the plaintext whitened with the little-endian bytes of the first words.
C25_LittleEndianBytes ==
    \A i \in AesInstances :
        (/\ Len(aesLog[i]) >= 1
         /\ aesLog[i][1].op = "encrypt"
         /\ aesLog[i][1].ret.kind = "buffer") =>
            LET c == aesLog[i][1]
                pad == LittleEndianPad(aes[i].seed, Len(c.input))
            IN  c.ret.bytes =
                    encryptBlock(c.key,
                        [k \in 1..Len(c.input) |-> bit_xor(c.input[k], pad[k])])

\* the load workers whose callback reported success
LoadedWorkers ==
    {w \in DOMAIN workers :
        /\ workers[w].kind = "ecc"
        /\ workers[w].phase = "completed"
        /\ workers[w].calls[1].form = "ok"}

\* C26: a successful loadKeys also initializes the random number generator:
\* once its callback has reported success the pool is Ready and a request
\* for random bytes succeeds with no initialize call in between.
C26_LoadInitializesRng ==
    LoadedWorkers # {} =>
        /\ pool.state = "Ready"
        /\ RngGetBytesResult(pool, 1).threw = ""

\* C27: the isInitialized worker never runs against the event-loop thread
\* on the shared generator: while a Worker::Execute is inside
\* l_PRNG.IsInitialized, the event-loop thread is inside no l_PRNG member
\* (initialize, getBytes, destroy).
C27_WorkerNeverOverlapsMain ==
    \A w \in DOMAIN workers :
        running[w] = "IsInitialized" => running[MainThread] = "idle"

\* the hex strings one generateKeys call makes from the private exponent x
PairOf(x) ==
    KeysObject(HexEncoder(SavePublic(PublicOf(x))), HexEncoder(SavePrivate(x)))

\* C28: the loaded key pair is always consistent: every loadKeys callback
\* that reports success delivers a public and a private key that one single
\* generateKeys call produced together, after any sequence of generateKeys
\* calls, those that fail part-way through saving included, and also when
\* generateKeys runs on the event-loop thread while the load worker executes.
C28_LoadedPairConsistent ==
    \A w \in LoadedWorkers :
        \E x \in KeyExps : workers[w].calls[1].keys = PairOf(x)

\* C29: a symmetric call that fails (arguments missing or no buffers, a key
\* that is not 32 bytes, a tag that does not verify, or any other fault of
\* the cipher primitive) does not advance the generator of its instance.
C29_FailedCallKeepsGenerator ==
    [][\A i \in AesInstances :
        (/\ Len(aesLog'[i]) > Len(aesLog[i])
         /\ aesLog'[i][Len(aesLog'[i])].threw # "") => aes'[i] = aes[i]]_vars

\* the constructions that returned an object
Constructed ==
    {i \in AesInstances :
        /\ aesLog[i] # <<>>
        /\ aesLog[i][1].op = "new"
        /\ aesLog[i][1].threw = ""}

\* the unsigned big-endian value of at most 3 bytes
RECURSIVE BigEndianValue(_)
BigEndianValue(bytes) ==
    IF bytes = <<>> THEN 0
    ELSE 256 * BigEndianValue(SubSeq(bytes, 1, Len(bytes) - 1))
         + bytes[Len(bytes)]

\* C30: the seed is the big-endian unsigned value of the seed buffer modulo
\* 2^64: byte k of the seed, counted from the least significant, is the
\* k-th byte from the end of the buffer, or 0 where the buffer is shorter.
\* An empty buffer gives 0, a buffer of up to 8 bytes its exact value, and
\* of a longer buffer only the last 8 bytes count.
C30_SeedIsBigEndianValue ==
    \A i \in Constructed :
        LET buf == aesLog[i][1].input
            seed == aes[i].seed
            n == Len(buf)
        IN  /\ \A k \in 0..7 :
                seed[k + 1] = IF k < n THEN buf[n - k] ELSE 0
            /\ n = 0 => seed = ZeroWord
            /\ n <= 3 =>
                seed[1] + 256 * seed[2] + 65536 * seed[3] = BigEndianValue(buf)
            /\ n > 8 => seed = bytesToUInt64(ZeroWord, SubSeq(buf, n - 7, n))
            /\ aes[i].pos = 0

C30_Witness ==
    /\ "A" \in Constructed
    /\ Len(aesLog["A"][1].input) = 9
    /\ aesLog["A"][1].input[1] = 97
    /\ aesLog["A"][1].input[2] = 0
    /\ aes["A"].seed[8] = 0
    /\ aes["A"].seed[1] = 97

====
